---------------------------- MODULE Spec2Model ----------------------------
(***************************************************************************)
(* Model of src/index.tsx: the metaball field (smin-blended sphere SDFs),  *)
(* the emitter kinematics (reseedSpheres / updateSpheres), the marching-   *)
(* cubes pass (updateMesh) and the UI handlers that write params.          *)
(*                                                                         *)
(* Numbers.  A JavaScript Number x is carried as the integer x * 10^4      *)
(* (fixed point, four decimals): lengths are in units of 1e-4, and a       *)
(* dimensionless 1.0 is ONE.  Every product and quotient is rounded to the *)
(* nearest representable value, as every IEEE operation is; sums and       *)
(* differences of representable values are exact.                          *)
(***************************************************************************)
EXTENDS Integers, Sequences, FiniteSets

VARIABLES
    params,     \* the mutable fields of `params` (src/index.tsx:27-39)
    spheres,    \* the emitter array `spheres` (src/index.tsx:42)
    mesh,       \* the position / normal attributes installed on mesh.geometry
    last,       \* history: the handler that produced this state and what it saw
    events,     \* history: number of handlers run so far (SpecWander: their parity)
    call,       \* the pending / finished call of a function under contract
    joysticks   \* per joystick: isDragging, pointerId and its output vector

vars == <<params, spheres, mesh, last, events, call, joysticks>>

---------------------------------------------------------------------------
(* Bounds of the model                                                     *)

\* largest sphere count the slider is moved to (the slider goes to maxSpheres)
MaxCount == 2
\* Math.random() is drawn from {0, 1/RandDen, ..., (RandDen-1)/RandDen}
RandDen == 4
\* number of handlers (UI inputs and animation frames) in a run
MaxEvents == 2
\* cells per axis of the grid when a whole pass is run (params.cellsPerAxis is 40)
GridCells == 2
\* smin is called on every pair of values of -SminRange..SminRange
SminRange == 40
\* pointers (fingers, mouse, pen) that send events to the joysticks
MaxPointers == 2

---------------------------------------------------------------------------
(* Program constants, in fixed point                                       *)

ONE == 10^4

defaultSphereCount == 10
defaultSmoothK == 750
defaultSpeed == 1500
targetRadius == 125
radiusVariance == 1250
volumeRadius == 1750
isoLevel == 0
cellsPerAxis == 40
maxSpheres == 64
\* `let d = 1e9`: carried unscaled; it only has to exceed every sdf by more than k
D0 == 1000000000
\* distance < 0.001
arriveEps == 10
\* const h = 0.001
normalStep == 10

\* slider ranges (min, max, step) of setupUI
smoothKMin == 10
smoothKMax == 1200
speedMin == 0
speedMax == 10000

---------------------------------------------------------------------------
(* Arithmetic                                                              *)

Abs(x) == IF x < 0 THEN -x ELSE x
Min(a, b) == IF a <= b THEN a ELSE b
Max(a, b) == IF a >= b THEN a ELSE b

\* n / d rounded to the nearest integer (ties up), d # 0
RoundDiv(n, d) ==
    IF d > 0 THEN (2 * n + d) \div (2 * d)
             ELSE (2 * (-n) + (-d)) \div (2 * (-d))

\* the rounded product and quotient of two fixed-point numbers
FxMul(a, b) == RoundDiv(a * b, ONE)
FxDiv(a, b) == RoundDiv(a * ONE, b)

RECURSIVE SqrtIter(_, _)
SqrtIter(n, x) ==
    LET y == (x + n \div x) \div 2
    IN  IF y >= x THEN x ELSE SqrtIter(n, y)

\* floor of the square root (Newton from above)
FloorSqrt(n) ==
    IF n <= 0 THEN 0
    ELSE IF n < 8192 * 8192 THEN SqrtIter(n, Min(n, 8192))
    ELSE SqrtIter(n, n)

\* Math.sqrt rounded to the nearest unit; n is in units squared
Sqrt(n) ==
    LET r == FloorSqrt(n)
    IN  IF n - r * r > r THEN r + 1 ELSE r

---------------------------------------------------------------------------
(* THREE.Vector3 values                                                    *)

Vec(x, y, z) == <<x, y, z>>
ZeroVec == <<0, 0, 0>>
VSub(a, b) == <<a[1] - b[1], a[2] - b[2], a[3] - b[3]>>
VAdd(a, b) == <<a[1] + b[1], a[2] + b[2], a[3] + b[3]>>
VLength(a) == Sqrt(a[1] * a[1] + a[2] * a[2] + a[3] * a[3])
\* Vector3.normalize(): divideScalar(length() || 1); the result is dimensionless
VNormalize(a) ==
    LET len == VLength(a)
    IN  IF len = 0 THEN <<FxDiv(a[1], ONE), FxDiv(a[2], ONE), FxDiv(a[3], ONE)>>
        ELSE <<FxDiv(a[1], len), FxDiv(a[2], len), FxDiv(a[3], len)>>
\* Vector3.multiplyScalar(s) of a dimensionless vector by a length
VScale(a, s) == <<FxMul(a[1], s), FxMul(a[2], s), FxMul(a[3], s)>>
\* Vector3.lerpVectors(p1, p2, t)
VLerp(p1, p2, t) ==
    <<p1[1] + FxMul(p2[1] - p1[1], t),
      p1[2] + FxMul(p2[2] - p1[2], t),
      p1[3] + FxMul(p2[3] - p1[3], t)>>

---------------------------------------------------------------------------
(* Math.random()                                                           *)
(* A handler's draws are a tape <<start, stride>>: its i-th call (from 0)  *)
(* returns ((start + stride * (i + i div RandDen)) mod RandDen) / RandDen, *)
(* a value of [0, 1).  Stride 0 is the tape of equal draws.                *)

Tapes == {<<RandDen \div 2, 0>>, <<0, 1>>, <<RandDen - 1, RandDen - 1>>}

Random(tape, i) ==
    (((tape[1] + tape[2] * (i + i \div RandDen)) % RandDen) * ONE) \div RandDen

---------------------------------------------------------------------------
(* Sphere logic                                                            *)

\* params.volumeRadius * (0.3 + params.smoothK * 3)
Padding(smoothK) == FxMul(volumeRadius, 3000 + smoothK * 3)
\* params.volumeRadius - padding
Bounds(smoothK) == volumeRadius - Padding(smoothK)

\* Faulty variant of RandomCoord: the draw is not centred (Math.random() * bounds * 2)
RandomCoordUncentred(r, bounds) == FxMul(r, bounds) * 2

\* (Math.random() - 0.5) * bounds * 2
RandomCoord(r, bounds) == FxMul(r - ONE \div 2, bounds) * 2

\* three consecutive draws starting at draw i
RandomPoint(tape, i, bounds) ==
    Vec(RandomCoord(Random(tape, i), bounds),
        RandomCoord(Random(tape, i + 1), bounds),
        RandomCoord(Random(tape, i + 2), bounds))

\* Faulty variant of NewSphere: the speed factor is centred on 0 like the coordinates
\* ((Math.random() - 0.5) * params.speed)
NewSphereSignedSpeed(tape, i, P, id) ==
    [ radius   |-> targetRadius
                     + FxMul(FxMul((Random(tape, i) - ONE \div 2) * 2, radiusVariance),
                             targetRadius),
      position |-> RandomPoint(tape, i + 1, Bounds(P.smoothK)),
      target   |-> RandomPoint(tape, i + 4, Bounds(P.smoothK)),
      speed    |-> FxMul(Random(tape, i + 7) - ONE \div 2, P.speed),
      seed     |-> id ]

\* the object pushed by one iteration of reseedSpheres' loop, whose first draw is i
NewSphere(tape, i, P, id) ==
    [ radius   |-> targetRadius
                     + FxMul(FxMul((Random(tape, i) - ONE \div 2) * 2, radiusVariance),
                             targetRadius),
      position |-> RandomPoint(tape, i + 1, Bounds(P.smoothK)),
      target   |-> RandomPoint(tape, i + 4, Bounds(P.smoothK)),
      speed    |-> FxMul(ONE \div 2 + Random(tape, i + 7), P.speed),
      seed     |-> id ]

\* reseedSpheres(count): `id` tags the emitters of this reseed (history only)
reseedSpheres(count, tape, P, id) ==
    [i \in 1..count |-> NewSphere(tape, 8 * (i - 1), P, id)]

\* Faulty variant of StepSphere: the step ignores deltaTime (moveStep = sphere.speed)
StepSphereNoDeltaTime(s, deltaTime, tape, i, bounds) ==
    LET direction == VSub(s.target, s.position)
        distance  == VLength(direction)
        moveStep  == s.speed
    IN  IF distance < arriveEps
        THEN [sphere |-> [s EXCEPT !.target = RandomPoint(tape, i, bounds)],
              draw |-> i + 3, branch |-> "near"]
        ELSE IF moveStep >= distance
        THEN [sphere |-> [s EXCEPT !.position = s.target, !.target = RandomPoint(tape, i, bounds)],
              draw |-> i + 3, branch |-> "snap"]
        ELSE [sphere |-> [s EXCEPT !.position =
                            VAdd(s.position, VScale(VNormalize(direction), moveStep))],
              draw |-> i, branch |-> "move"]

\* Faulty variant of StepSphere: the `moveStep >= distance` test is missing, so an
\* emitter that is not near its target always advances by moveStep
StepSphereNoSnap(s, deltaTime, tape, i, bounds) ==
    LET direction == VSub(s.target, s.position)
        distance  == VLength(direction)
        moveStep  == FxMul(s.speed, deltaTime)
    IN  IF distance < arriveEps
        THEN [sphere |-> [s EXCEPT !.target = RandomPoint(tape, i, bounds)],
              draw |-> i + 3, branch |-> "near"]
        ELSE [sphere |-> [s EXCEPT !.position =
                            VAdd(s.position, VScale(VNormalize(direction), moveStep))],
              draw |-> i, branch |-> "move"]

\* Faulty variant of StepSphere: the last branch computes the displacement and
\* does not add it (sphere.position.add is missing)
StepSphereNoAdvance(s, deltaTime, tape, i, bounds) ==
    LET direction == VSub(s.target, s.position)
        distance  == VLength(direction)
        moveStep  == FxMul(s.speed, deltaTime)
    IN  IF distance < arriveEps
        THEN [sphere |-> [s EXCEPT !.target = RandomPoint(tape, i, bounds)],
              draw |-> i + 3, branch |-> "near"]
        ELSE IF moveStep >= distance
        THEN [sphere |-> [s EXCEPT !.position = s.target,
                                   !.target = RandomPoint(tape, i, bounds)],
              draw |-> i + 3, branch |-> "snap"]
        ELSE [sphere |-> s, draw |-> i, branch |-> "move"]

\* one iteration of updateSpheres' loop; `i` is the next unused draw.
\* Returns the sphere, the next unused draw and the branch taken.
StepSphere(s, deltaTime, tape, i, bounds) ==
    LET direction == VSub(s.target, s.position)
        distance  == VLength(direction)
        moveStep  == FxMul(s.speed, deltaTime)
    IN  IF distance < arriveEps
        THEN [sphere |-> [s EXCEPT !.target = RandomPoint(tape, i, bounds)],
              draw |-> i + 3, branch |-> "near"]
        ELSE IF moveStep >= distance
        THEN [sphere |-> [s EXCEPT !.position = s.target,
                                   !.target = RandomPoint(tape, i, bounds)],
              draw |-> i + 3, branch |-> "snap"]
        ELSE [sphere |-> [s EXCEPT !.position =
                            VAdd(s.position, VScale(VNormalize(direction), moveStep))],
              draw |-> i, branch |-> "move"]

RECURSIVE UpdateLoop(_, _, _, _, _, _, _)
UpdateLoop(sph, n, deltaTime, tape, i, bounds, branches) ==
    IF n > Len(sph) THEN [spheres |-> sph, branches |-> branches]
    ELSE LET r == StepSphere(sph[n], deltaTime, tape, i, bounds)
         IN  UpdateLoop([sph EXCEPT ![n] = r.sphere], n + 1, deltaTime, tape,
                        r.draw, bounds, Append(branches, r.branch))

\* updateSpheres(deltaTime)
updateSpheres(sph, deltaTime, tape, P) ==
    UpdateLoop(sph, 1, deltaTime, tape, 0, Bounds(P.smoothK), <<>>)

---------------------------------------------------------------------------
(* Field                                                                   *)

\* p.distanceTo(center) - radius
sdf_sphere(p, center, radius) == VLength(VSub(p, center)) - radius

\* Math.max(0.0, Math.min(1.0, 0.5 + 0.5 * (b - a) / k))
SminH(a, b, k) ==
    IF b - a <= -k THEN 0
    ELSE IF b - a >= k THEN ONE
    ELSE Max(0, Min(ONE, ONE \div 2 + RoundDiv((b - a) * ONE, 2 * k)))

\* Faulty variant of smin: the blend term is added (a*h + b*(1-h) + k*h*(1-h))
sminAddsBlend(a, b, k) ==
    LET h == SminH(a, b, k)
    IN  FxMul(a, h) + FxMul(b, ONE - h) + FxMul(FxMul(k, h), ONE - h)

\* a * h + b * (1.0 - h) - k * h * (1.0 - h)
smin(a, b, k) ==
    LET h == SminH(a, b, k)
    IN  FxMul(a, h) + FxMul(b, ONE - h) - FxMul(FxMul(k, h), ONE - h)

RECURSIVE FieldFold(_, _, _, _, _)
FieldFold(worldPos, sph, k, n, d) ==
    IF n > Len(sph) THEN d
    ELSE FieldFold(worldPos, sph, k, n + 1,
                   smin(d, sdf_sphere(worldPos, sph[n].position, sph[n].radius), k))

\* fieldValue(worldPos), reading `spheres` and params.smoothK
fieldValue(worldPos, sph, k) == FieldFold(worldPos, sph, k, 1, D0)

\* estimateNormal(pos): the value left in the shared vector normal_h
estimateNormal(pos, sph, k) ==
    LET h  == normalStep
        nx == fieldValue(Vec(pos[1] + h, pos[2], pos[3]), sph, k)
                - fieldValue(Vec(pos[1] - h, pos[2], pos[3]), sph, k)
        ny == fieldValue(Vec(pos[1], pos[2] + h, pos[3]), sph, k)
                - fieldValue(Vec(pos[1], pos[2] - h, pos[3]), sph, k)
        nz == fieldValue(Vec(pos[1], pos[2], pos[3] + h), sph, k)
                - fieldValue(Vec(pos[1], pos[2], pos[3] - h), sph, k)
    IN  VNormalize(Vec(nx, ny, nz))

\* Math.abs(x) < 0.00001, i.e. |x| below a tenth of a unit
Tiny(x) == 10 * Abs(x) < 1

\* Faulty variant of interpolateVertex: the v2 test comes before the v1 test
interpolateVertexV2First(p1, p2, v1, v2, iso) ==
    IF Tiny(iso - v2) THEN p2
    ELSE IF Tiny(iso - v1) THEN p1
    ELSE IF Tiny(v1 - v2) THEN p1
    ELSE VLerp(p1, p2, FxDiv(iso - v1, v2 - v1))

\* interpolateVertex(p1, p2, v1, v2), reading params.isoLevel
interpolateVertex(p1, p2, v1, v2, iso) ==
    IF Tiny(iso - v1) THEN p1
    ELSE IF Tiny(iso - v2) THEN p2
    ELSE IF Tiny(v1 - v2) THEN p1
    ELSE VLerp(p1, p2, FxDiv(iso - v1, v2 - v1))

---------------------------------------------------------------------------
(* Marching-cubes case tables (MarchingCubesTables.js)                     *)

\* bit c of n
Bit(n, c) == (n \div (2 ^ c)) % 2

\* the two corners of each of the 12 cube edges, in the argument order of the
\* interpolateVertex calls of updateMesh
EdgeCorners ==
    [e \in 0..11 |->
        CASE e = 0 -> <<0, 1>> [] e = 1 -> <<1, 2>> [] e = 2  -> <<2, 3>> [] e = 3  -> <<3, 0>>
          [] e = 4 -> <<4, 5>> [] e = 5 -> <<5, 6>> [] e = 6  -> <<6, 7>> [] e = 7  -> <<7, 4>>
          [] e = 8 -> <<0, 4>> [] e = 9 -> <<1, 5>> [] e = 10 -> <<2, 6>> [] e = 11 -> <<3, 7>>]

RECURSIVE EdgeMaskFrom(_, _)
EdgeMaskFrom(cubeIndex, e) ==
    IF e > 11 THEN 0
    ELSE (IF Bit(cubeIndex, EdgeCorners[e][1]) # Bit(cubeIndex, EdgeCorners[e][2])
          THEN 2 ^ e ELSE 0) + EdgeMaskFrom(cubeIndex, e + 1)

\* edgeTable[cubeIndex]: the 12-bit mask of the edges the isosurface crosses, i.e.
\* of the edges whose two corners lie on different sides (the standard table)
edgeTable(cubeIndex) == EdgeMaskFrom(cubeIndex, 0)

\* triTable[cubeIndex] without its -1 terminator: edge triples of the standard table
triTable ==
   <<
      <<>>,
      <<0, 8, 3>>,
      <<0, 1, 9>>,
      <<1, 8, 3, 9, 8, 1>>,
      <<1, 2, 10>>,
      <<0, 8, 3, 1, 2, 10>>,
      <<9, 2, 10, 0, 2, 9>>,
      <<2, 8, 3, 2, 10, 8, 10, 9, 8>>,
      <<3, 11, 2>>,
      <<0, 11, 2, 8, 11, 0>>,
      <<1, 9, 0, 2, 3, 11>>,
      <<1, 11, 2, 1, 9, 11, 9, 8, 11>>,
      <<3, 10, 1, 11, 10, 3>>,
      <<0, 10, 1, 0, 8, 10, 8, 11, 10>>,
      <<3, 9, 0, 3, 11, 9, 11, 10, 9>>,
      <<9, 8, 10, 10, 8, 11>>,
      <<4, 7, 8>>,
      <<4, 3, 0, 7, 3, 4>>,
      <<0, 1, 9, 8, 4, 7>>,
      <<4, 1, 9, 4, 7, 1, 7, 3, 1>>,
      <<1, 2, 10, 8, 4, 7>>,
      <<3, 4, 7, 3, 0, 4, 1, 2, 10>>,
      <<9, 2, 10, 9, 0, 2, 8, 4, 7>>,
      <<2, 10, 9, 2, 9, 7, 2, 7, 3, 7, 9, 4>>,
      <<8, 4, 7, 3, 11, 2>>,
      <<11, 4, 7, 11, 2, 4, 2, 0, 4>>,
      <<9, 0, 1, 8, 4, 7, 2, 3, 11>>,
      <<4, 7, 11, 9, 4, 11, 9, 11, 2, 9, 2, 1>>,
      <<3, 10, 1, 3, 11, 10, 7, 8, 4>>,
      <<1, 11, 10, 1, 4, 11, 1, 0, 4, 7, 11, 4>>,
      <<4, 7, 8, 9, 0, 11, 9, 11, 10, 11, 0, 3>>,
      <<4, 7, 11, 4, 11, 9, 9, 11, 10>>,
      <<9, 5, 4>>,
      <<9, 5, 4, 0, 8, 3>>,
      <<0, 5, 4, 1, 5, 0>>,
      <<8, 5, 4, 8, 3, 5, 3, 1, 5>>,
      <<1, 2, 10, 9, 5, 4>>,
      <<3, 0, 8, 1, 2, 10, 4, 9, 5>>,
      <<5, 2, 10, 5, 4, 2, 4, 0, 2>>,
      <<2, 10, 5, 3, 2, 5, 3, 5, 4, 3, 4, 8>>,
      <<9, 5, 4, 2, 3, 11>>,
      <<0, 11, 2, 0, 8, 11, 4, 9, 5>>,
      <<0, 5, 4, 0, 1, 5, 2, 3, 11>>,
      <<2, 1, 5, 2, 5, 8, 2, 8, 11, 4, 8, 5>>,
      <<10, 3, 11, 10, 1, 3, 9, 5, 4>>,
      <<4, 9, 5, 0, 8, 1, 8, 10, 1, 8, 11, 10>>,
      <<5, 4, 0, 5, 0, 11, 5, 11, 10, 11, 0, 3>>,
      <<5, 4, 8, 5, 8, 10, 10, 8, 11>>,
      <<9, 7, 8, 5, 7, 9>>,
      <<9, 3, 0, 9, 5, 3, 5, 7, 3>>,
      <<0, 7, 8, 0, 1, 7, 1, 5, 7>>,
      <<1, 5, 3, 3, 5, 7>>,
      <<9, 7, 8, 9, 5, 7, 10, 1, 2>>,
      <<10, 1, 2, 9, 5, 0, 5, 3, 0, 5, 7, 3>>,
      <<8, 0, 2, 8, 2, 5, 8, 5, 7, 10, 5, 2>>,
      <<2, 10, 5, 2, 5, 3, 3, 5, 7>>,
      <<7, 9, 5, 7, 8, 9, 3, 11, 2>>,
      <<9, 5, 7, 9, 7, 2, 9, 2, 0, 2, 7, 11>>,
      <<2, 3, 11, 0, 1, 8, 1, 7, 8, 1, 5, 7>>,
      <<11, 2, 1, 11, 1, 7, 7, 1, 5>>,
      <<9, 5, 8, 8, 5, 7, 10, 1, 3, 10, 3, 11>>,
      <<5, 7, 0, 5, 0, 9, 7, 11, 0, 1, 0, 10, 11, 10, 0>>,
      <<11, 10, 0, 11, 0, 3, 10, 5, 0, 8, 0, 7, 5, 7, 0>>,
      <<11, 10, 5, 7, 11, 5>>,
      <<10, 6, 5>>,
      <<0, 8, 3, 5, 10, 6>>,
      <<9, 0, 1, 5, 10, 6>>,
      <<1, 8, 3, 1, 9, 8, 5, 10, 6>>,
      <<1, 6, 5, 2, 6, 1>>,
      <<1, 6, 5, 1, 2, 6, 3, 0, 8>>,
      <<9, 6, 5, 9, 0, 6, 0, 2, 6>>,
      <<5, 9, 8, 5, 8, 2, 5, 2, 6, 3, 2, 8>>,
      <<2, 3, 11, 10, 6, 5>>,
      <<11, 0, 8, 11, 2, 0, 10, 6, 5>>,
      <<0, 1, 9, 2, 3, 11, 5, 10, 6>>,
      <<5, 10, 6, 1, 9, 2, 9, 11, 2, 9, 8, 11>>,
      <<6, 3, 11, 6, 5, 3, 5, 1, 3>>,
      <<0, 8, 11, 0, 11, 5, 0, 5, 1, 5, 11, 6>>,
      <<3, 11, 6, 0, 3, 6, 0, 6, 5, 0, 5, 9>>,
      <<6, 5, 9, 6, 9, 11, 11, 9, 8>>,
      <<5, 10, 6, 4, 7, 8>>,
      <<4, 3, 0, 4, 7, 3, 6, 5, 10>>,
      <<1, 9, 0, 5, 10, 6, 8, 4, 7>>,
      <<10, 6, 5, 1, 9, 7, 1, 7, 3, 7, 9, 4>>,
      <<6, 1, 2, 6, 5, 1, 4, 7, 8>>,
      <<1, 2, 5, 5, 2, 6, 3, 0, 4, 3, 4, 7>>,
      <<8, 4, 7, 9, 0, 5, 0, 6, 5, 0, 2, 6>>,
      <<7, 3, 9, 7, 9, 4, 3, 2, 9, 5, 9, 6, 2, 6, 9>>,
      <<3, 11, 2, 7, 8, 4, 10, 6, 5>>,
      <<5, 10, 6, 4, 7, 2, 4, 2, 0, 2, 7, 11>>,
      <<0, 1, 9, 4, 7, 8, 2, 3, 11, 5, 10, 6>>,
      <<9, 2, 1, 9, 11, 2, 9, 4, 11, 7, 11, 4, 5, 10, 6>>,
      <<8, 4, 7, 3, 11, 5, 3, 5, 1, 5, 11, 6>>,
      <<5, 1, 11, 5, 11, 6, 1, 0, 11, 7, 11, 4, 0, 4, 11>>,
      <<0, 5, 9, 0, 6, 5, 0, 3, 6, 11, 6, 3, 8, 4, 7>>,
      <<6, 5, 9, 6, 9, 11, 4, 7, 9, 7, 11, 9>>,
      <<10, 4, 9, 6, 4, 10>>,
      <<4, 10, 6, 4, 9, 10, 0, 8, 3>>,
      <<10, 0, 1, 10, 6, 0, 6, 4, 0>>,
      <<8, 3, 1, 8, 1, 6, 8, 6, 4, 6, 1, 10>>,
      <<1, 4, 9, 1, 2, 4, 2, 6, 4>>,
      <<3, 0, 8, 1, 2, 9, 2, 4, 9, 2, 6, 4>>,
      <<0, 2, 4, 4, 2, 6>>,
      <<8, 3, 2, 8, 2, 4, 4, 2, 6>>,
      <<10, 4, 9, 10, 6, 4, 11, 2, 3>>,
      <<0, 8, 2, 2, 8, 11, 4, 9, 10, 4, 10, 6>>,
      <<3, 11, 2, 0, 1, 6, 0, 6, 4, 6, 1, 10>>,
      <<6, 4, 1, 6, 1, 10, 4, 8, 1, 2, 1, 11, 8, 11, 1>>,
      <<9, 6, 4, 9, 3, 6, 9, 1, 3, 11, 6, 3>>,
      <<8, 11, 1, 8, 1, 0, 11, 6, 1, 9, 1, 4, 6, 4, 1>>,
      <<3, 11, 6, 3, 6, 0, 0, 6, 4>>,
      <<6, 4, 8, 11, 6, 8>>,
      <<7, 10, 6, 7, 8, 10, 8, 9, 10>>,
      <<0, 7, 3, 0, 10, 7, 0, 9, 10, 6, 7, 10>>,
      <<10, 6, 7, 1, 10, 7, 1, 7, 8, 1, 8, 0>>,
      <<10, 6, 7, 10, 7, 1, 1, 7, 3>>,
      <<1, 2, 6, 1, 6, 8, 1, 8, 9, 8, 6, 7>>,
      <<2, 6, 9, 2, 9, 1, 6, 7, 9, 0, 9, 3, 7, 3, 9>>,
      <<7, 8, 0, 7, 0, 6, 6, 0, 2>>,
      <<7, 3, 2, 6, 7, 2>>,
      <<2, 3, 11, 10, 6, 8, 10, 8, 9, 8, 6, 7>>,
      <<2, 0, 7, 2, 7, 11, 0, 9, 7, 6, 7, 10, 9, 10, 7>>,
      <<1, 8, 0, 1, 7, 8, 1, 10, 7, 6, 7, 10, 2, 3, 11>>,
      <<11, 2, 1, 11, 1, 7, 10, 6, 1, 6, 7, 1>>,
      <<8, 9, 6, 8, 6, 7, 9, 1, 6, 11, 6, 3, 1, 3, 6>>,
      <<0, 9, 1, 11, 6, 7>>,
      <<7, 8, 0, 7, 0, 6, 3, 11, 0, 11, 6, 0>>,
      <<7, 11, 6>>,
      <<7, 6, 11>>,
      <<3, 0, 8, 11, 7, 6>>,
      <<0, 1, 9, 11, 7, 6>>,
      <<8, 1, 9, 8, 3, 1, 11, 7, 6>>,
      <<10, 1, 2, 6, 11, 7>>,
      <<1, 2, 10, 3, 0, 8, 6, 11, 7>>,
      <<2, 9, 0, 2, 10, 9, 6, 11, 7>>,
      <<6, 11, 7, 2, 10, 3, 10, 8, 3, 10, 9, 8>>,
      <<7, 2, 3, 6, 2, 7>>,
      <<7, 0, 8, 7, 6, 0, 6, 2, 0>>,
      <<2, 7, 6, 2, 3, 7, 0, 1, 9>>,
      <<1, 6, 2, 1, 8, 6, 1, 9, 8, 8, 7, 6>>,
      <<10, 7, 6, 10, 1, 7, 1, 3, 7>>,
      <<10, 7, 6, 1, 7, 10, 1, 8, 7, 1, 0, 8>>,
      <<0, 3, 7, 0, 7, 10, 0, 10, 9, 6, 10, 7>>,
      <<7, 6, 10, 7, 10, 8, 8, 10, 9>>,
      <<6, 8, 4, 11, 8, 6>>,
      <<3, 6, 11, 3, 0, 6, 0, 4, 6>>,
      <<8, 6, 11, 8, 4, 6, 9, 0, 1>>,
      <<9, 4, 6, 9, 6, 3, 9, 3, 1, 11, 3, 6>>,
      <<6, 8, 4, 6, 11, 8, 2, 10, 1>>,
      <<1, 2, 10, 3, 0, 11, 0, 6, 11, 0, 4, 6>>,
      <<4, 11, 8, 4, 6, 11, 0, 2, 9, 2, 10, 9>>,
      <<10, 9, 3, 10, 3, 2, 9, 4, 3, 11, 3, 6, 4, 6, 3>>,
      <<8, 2, 3, 8, 4, 2, 4, 6, 2>>,
      <<0, 4, 2, 4, 6, 2>>,
      <<1, 9, 0, 2, 3, 4, 2, 4, 6, 4, 3, 8>>,
      <<1, 9, 4, 1, 4, 2, 2, 4, 6>>,
      <<8, 1, 3, 8, 6, 1, 8, 4, 6, 6, 10, 1>>,
      <<10, 1, 0, 10, 0, 6, 6, 0, 4>>,
      <<4, 6, 3, 4, 3, 8, 6, 10, 3, 0, 3, 9, 10, 9, 3>>,
      <<10, 9, 4, 6, 10, 4>>,
      <<4, 9, 5, 7, 6, 11>>,
      <<0, 8, 3, 4, 9, 5, 11, 7, 6>>,
      <<5, 0, 1, 5, 4, 0, 7, 6, 11>>,
      <<11, 7, 6, 8, 3, 4, 3, 5, 4, 3, 1, 5>>,
      <<9, 5, 4, 10, 1, 2, 7, 6, 11>>,
      <<6, 11, 7, 1, 2, 10, 0, 8, 3, 4, 9, 5>>,
      <<7, 6, 11, 5, 4, 10, 4, 2, 10, 4, 0, 2>>,
      <<3, 4, 8, 3, 5, 4, 3, 2, 5, 10, 5, 2, 11, 7, 6>>,
      <<7, 2, 3, 7, 6, 2, 5, 4, 9>>,
      <<9, 5, 4, 0, 8, 6, 0, 6, 2, 6, 8, 7>>,
      <<3, 6, 2, 3, 7, 6, 1, 5, 0, 5, 4, 0>>,
      <<6, 2, 8, 6, 8, 7, 2, 1, 8, 4, 8, 5, 1, 5, 8>>,
      <<9, 5, 4, 10, 1, 6, 1, 7, 6, 1, 3, 7>>,
      <<1, 6, 10, 1, 7, 6, 1, 0, 7, 8, 7, 0, 9, 5, 4>>,
      <<4, 0, 10, 4, 10, 5, 0, 3, 10, 6, 10, 7, 3, 7, 10>>,
      <<7, 6, 10, 7, 10, 8, 5, 4, 10, 4, 8, 10>>,
      <<6, 9, 5, 6, 11, 9, 11, 8, 9>>,
      <<3, 6, 11, 0, 6, 3, 0, 5, 6, 0, 9, 5>>,
      <<0, 11, 8, 0, 5, 11, 0, 1, 5, 5, 6, 11>>,
      <<6, 11, 3, 6, 3, 5, 5, 3, 1>>,
      <<1, 2, 10, 9, 5, 11, 9, 11, 8, 11, 5, 6>>,
      <<0, 11, 3, 0, 6, 11, 0, 9, 6, 5, 6, 9, 1, 2, 10>>,
      <<11, 8, 5, 11, 5, 6, 8, 0, 5, 10, 5, 2, 0, 2, 5>>,
      <<6, 11, 3, 6, 3, 5, 2, 10, 3, 10, 5, 3>>,
      <<5, 8, 9, 5, 2, 8, 5, 6, 2, 3, 8, 2>>,
      <<9, 5, 6, 9, 6, 0, 0, 6, 2>>,
      <<1, 5, 8, 1, 8, 0, 5, 6, 8, 3, 8, 2, 6, 2, 8>>,
      <<1, 5, 6, 2, 1, 6>>,
      <<1, 3, 6, 1, 6, 10, 3, 8, 6, 5, 6, 9, 8, 9, 6>>,
      <<10, 1, 0, 10, 0, 6, 9, 5, 0, 5, 6, 0>>,
      <<0, 3, 8, 5, 6, 10>>,
      <<10, 5, 6>>,
      <<11, 5, 10, 7, 5, 11>>,
      <<11, 5, 10, 11, 7, 5, 8, 3, 0>>,
      <<5, 11, 7, 5, 10, 11, 1, 9, 0>>,
      <<10, 7, 5, 10, 11, 7, 9, 8, 1, 8, 3, 1>>,
      <<11, 1, 2, 11, 7, 1, 7, 5, 1>>,
      <<0, 8, 3, 1, 2, 7, 1, 7, 5, 7, 2, 11>>,
      <<9, 7, 5, 9, 2, 7, 9, 0, 2, 2, 11, 7>>,
      <<7, 5, 2, 7, 2, 11, 5, 9, 2, 3, 2, 8, 9, 8, 2>>,
      <<2, 5, 10, 2, 3, 5, 3, 7, 5>>,
      <<8, 2, 0, 8, 5, 2, 8, 7, 5, 10, 2, 5>>,
      <<9, 0, 1, 5, 10, 3, 5, 3, 7, 3, 10, 2>>,
      <<9, 8, 2, 9, 2, 1, 8, 7, 2, 10, 2, 5, 7, 5, 2>>,
      <<1, 3, 5, 3, 7, 5>>,
      <<0, 8, 7, 0, 7, 1, 1, 7, 5>>,
      <<9, 0, 3, 9, 3, 5, 5, 3, 7>>,
      <<9, 8, 7, 5, 9, 7>>,
      <<5, 8, 4, 5, 10, 8, 10, 11, 8>>,
      <<5, 0, 4, 5, 11, 0, 5, 10, 11, 11, 3, 0>>,
      <<0, 1, 9, 8, 4, 10, 8, 10, 11, 10, 4, 5>>,
      <<10, 11, 4, 10, 4, 5, 11, 3, 4, 9, 4, 1, 3, 1, 4>>,
      <<2, 5, 1, 2, 8, 5, 2, 11, 8, 4, 5, 8>>,
      <<0, 4, 11, 0, 11, 3, 4, 5, 11, 2, 11, 1, 5, 1, 11>>,
      <<0, 2, 5, 0, 5, 9, 2, 11, 5, 4, 5, 8, 11, 8, 5>>,
      <<9, 4, 5, 2, 11, 3>>,
      <<2, 5, 10, 3, 5, 2, 3, 4, 5, 3, 8, 4>>,
      <<5, 10, 2, 5, 2, 4, 4, 2, 0>>,
      <<3, 10, 2, 3, 5, 10, 3, 8, 5, 4, 5, 8, 0, 1, 9>>,
      <<5, 10, 2, 5, 2, 4, 1, 9, 2, 9, 4, 2>>,
      <<8, 4, 5, 8, 5, 3, 3, 5, 1>>,
      <<0, 4, 5, 1, 0, 5>>,
      <<8, 4, 5, 8, 5, 3, 9, 0, 5, 0, 3, 5>>,
      <<9, 4, 5>>,
      <<4, 11, 7, 4, 9, 11, 9, 10, 11>>,
      <<0, 8, 3, 4, 9, 7, 9, 11, 7, 9, 10, 11>>,
      <<1, 10, 11, 1, 11, 4, 1, 4, 0, 7, 4, 11>>,
      <<3, 1, 4, 3, 4, 8, 1, 10, 4, 7, 4, 11, 10, 11, 4>>,
      <<4, 11, 7, 9, 11, 4, 9, 2, 11, 9, 1, 2>>,
      <<9, 7, 4, 9, 11, 7, 9, 1, 11, 2, 11, 1, 0, 8, 3>>,
      <<11, 7, 4, 11, 4, 2, 2, 4, 0>>,
      <<11, 7, 4, 11, 4, 2, 8, 3, 4, 3, 2, 4>>,
      <<2, 9, 10, 2, 7, 9, 2, 3, 7, 7, 4, 9>>,
      <<9, 10, 7, 9, 7, 4, 10, 2, 7, 8, 7, 0, 2, 0, 7>>,
      <<3, 7, 10, 3, 10, 2, 7, 4, 10, 1, 10, 0, 4, 0, 10>>,
      <<1, 10, 2, 8, 7, 4>>,
      <<4, 9, 1, 4, 1, 7, 7, 1, 3>>,
      <<4, 9, 1, 4, 1, 7, 0, 8, 1, 8, 7, 1>>,
      <<4, 0, 3, 7, 4, 3>>,
      <<4, 8, 7>>,
      <<9, 10, 8, 10, 11, 8>>,
      <<3, 0, 9, 3, 9, 11, 11, 9, 10>>,
      <<0, 1, 10, 0, 10, 8, 8, 10, 11>>,
      <<3, 1, 10, 11, 3, 10>>,
      <<1, 2, 11, 1, 11, 9, 9, 11, 8>>,
      <<3, 0, 9, 3, 9, 11, 1, 2, 9, 2, 11, 9>>,
      <<0, 2, 11, 8, 0, 11>>,
      <<3, 2, 11>>,
      <<2, 3, 8, 2, 8, 10, 10, 8, 9>>,
      <<9, 10, 2, 0, 9, 2>>,
      <<2, 3, 8, 2, 8, 10, 0, 1, 8, 1, 10, 8>>,
      <<1, 10, 2>>,
      <<1, 3, 8, 9, 1, 8>>,
      <<0, 9, 1>>,
      <<0, 3, 8>>,
      <<>>
   >>

---------------------------------------------------------------------------
(* updateMesh                                                              *)

\* offsets of cornerPositions[0..7] from the cell origin, in cells
CornerOffsets ==
    [c \in 0..7 |->
        CASE c = 0 -> <<0, 0, 0>> [] c = 1 -> <<1, 0, 0>> [] c = 2 -> <<1, 1, 0>>
          [] c = 3 -> <<0, 1, 0>> [] c = 4 -> <<0, 0, 1>> [] c = 5 -> <<1, 0, 1>>
          [] c = 6 -> <<1, 1, 1>> [] c = 7 -> <<0, 1, 1>>]

\* cornerPositions after the eight .set calls of cell (i, j, k)
CellCorners(i, j, k, cells) ==
    LET halfSize == volumeRadius
        cellSize == RoundDiv(halfSize * 2, cells)
        origin   == -halfSize
    IN  [c \in 0..7 |->
            Vec(origin + i * cellSize + CornerOffsets[c][1] * cellSize,
                origin + j * cellSize + CornerOffsets[c][2] * cellSize,
                origin + k * cellSize + CornerOffsets[c][3] * cellSize)]

RECURSIVE CubeIndexFrom(_, _, _)
CubeIndexFrom(cornerValues, iso, c) ==
    IF c > 7 THEN 0
    ELSE (IF cornerValues[c] < iso THEN 2 ^ c ELSE 0) + CubeIndexFrom(cornerValues, iso, c + 1)

\* Faulty variant of CubeIndex: the loop stops at c < 7
CubeIndexSevenCorners(cornerValues, iso) ==
    CubeIndexFrom([c \in 0..7 |-> IF c = 7 THEN iso ELSE cornerValues[c]], iso, 0)

\* the loop `for c < 8`: cubeIndex |= (1 << c) when cornerValues[c] < isoLevel
CubeIndex(cornerValues, iso) == CubeIndexFrom(cornerValues, iso, 0)

\* the twelve `if (edgeTable[cubeIndex] & 2^e) edgeIntersection[e] = interpolateVertex(..)`
InterpolateEdges(edgeIntersection, mask, cornerPositions, cornerValues, iso) ==
    [e \in 0..11 |->
        IF Bit(mask, e) = 1
        THEN interpolateVertex(cornerPositions[EdgeCorners[e][1]],
                               cornerPositions[EdgeCorners[e][2]],
                               cornerValues[EdgeCorners[e][1]],
                               cornerValues[EdgeCorners[e][2]], iso)
        ELSE edgeIntersection[e]]

\* n1, n2, n3 of one triangle as they are read by normals.push.  estimateNormal
\* returns the one shared vector normal_h, so n1, n2 and n3 are the same object,
\* which holds the result of the last call, estimateNormal(v3), when it is read.
TriangleNormals(v1, v2, v3, sph, k) ==
    LET normal_h == estimateNormal(v3, sph, k)
    IN  <<normal_h, normal_h, normal_h>>

RECURSIVE TriangleLoop(_, _, _, _, _, _)
\* for (t = 0; triTable[cubeIndex][t] !== -1; t += 3): t counts from 1 here
TriangleLoop(tri, t, edgeIntersection, sph, k, out) ==
    IF t > Len(tri) THEN out
    ELSE LET v1 == edgeIntersection[tri[t + 2]]
             v2 == edgeIntersection[tri[t + 1]]
             v3 == edgeIntersection[tri[t]]
         IN  TriangleLoop(tri, t + 3, edgeIntersection, sph, k,
                 [vertices |-> out.vertices \o <<v1, v2, v3>>,
                  normals  |-> out.normals \o TriangleNormals(v1, v2, v3, sph, k)])

\* `if (edgeTable[cubeIndex] === 0) continue;`
SkipCell(mask) == mask = 0

\* one cell: what it appends, the scratch edgeIntersection it leaves, and a record
\* of what it did (history)
Cell(i, j, k, edgeIntersection, sph, P) ==
    LET cornerPositions == CellCorners(i, j, k, P.cellsPerAxis)
        cornerValues    == [c \in 0..7 |-> fieldValue(cornerPositions[c], sph, P.smoothK)]
        cubeIndex       == CubeIndex(cornerValues, P.isoLevel)
        mask            == edgeTable(cubeIndex)
    IN  IF SkipCell(mask)
        THEN [vertices |-> <<>>, normals |-> <<>>, edgeIntersection |-> edgeIntersection,
              did |-> [cubeIndex |-> cubeIndex, interpolated |-> 0, appended |-> 0]]
        ELSE LET edges == InterpolateEdges(edgeIntersection, mask, cornerPositions,
                                           cornerValues, P.isoLevel)
                 out   == TriangleLoop(triTable[cubeIndex + 1], 1, edges, sph, P.smoothK,
                                       [vertices |-> <<>>, normals |-> <<>>])
             IN  [vertices |-> out.vertices, normals |-> out.normals,
                  edgeIntersection |-> edges,
                  did |-> [cubeIndex |-> cubeIndex,
                           interpolated |-> Cardinality({e \in 0..11 : Bit(mask, e) = 1}),
                           appended |-> Len(out.vertices)]]

\* what a pass has accumulated: the two arrays, the scratch edgeIntersection, and
\* the record of every cell visited (history)
Accumulate(acc, r) ==
    [vertices |-> acc.vertices \o r.vertices,
     normals  |-> acc.normals \o r.normals,
     edgeIntersection |-> r.edgeIntersection,
     cells    |-> Append(acc.cells, r.did)]

RECURSIVE KLoop(_, _, _, _, _, _)
\* for (let k = 0; k < cells; k++)
KLoop(i, j, k, sph, P, acc) ==
    IF k >= P.cellsPerAxis THEN acc
    ELSE KLoop(i, j, k + 1, sph, P,
               Accumulate(acc, Cell(i, j, k, acc.edgeIntersection, sph, P)))

RECURSIVE JLoop(_, _, _, _, _)
\* for (let j = 0; j < cells; j++)
JLoop(i, j, sph, P, acc) ==
    IF j >= P.cellsPerAxis THEN acc
    ELSE JLoop(i, j + 1, sph, P, KLoop(i, j, 0, sph, P, acc))

RECURSIVE ILoop(_, _, _, _)
\* for (let i = 0; i < cells; i++)
ILoop(i, sph, P, acc) ==
    IF i >= P.cellsPerAxis THEN acc
    ELSE ILoop(i + 1, sph, P, JLoop(i, 0, sph, P, acc))

\* updateMesh(): the attributes it installs on mesh.geometry, with what the pass read
\* (history: the cells, the number of emitters, their seeds, cellsPerAxis).
\* edgeIntersection is scratch: a cell reads only the entries it has just written
\* (triTable names only edges of the cell's mask), so the pass starts it from the
\* initial vectors.
updateMesh(sph, P) ==
    LET out == ILoop(0, sph, P,
                     [vertices |-> <<>>, normals |-> <<>>, cells |-> <<>>,
                      edgeIntersection |-> [e \in 0..11 |-> ZeroVec]])
    IN  [installed |-> TRUE,
         vertices  |-> out.vertices,
         normals   |-> out.normals,
         cells     |-> out.cells,
         emitters  |-> Len(sph),
         seeds     |-> {sph[n].seed : n \in 1..Len(sph)},
         cellsPerAxis |-> P.cellsPerAxis]

---------------------------------------------------------------------------
(* setupJoystick: the two virtual joysticks                                *)

\* 'joystick-move-container' writes moveVector, 'joystick-look-container' lookVector
JoystickNames == {"move", "look"}

\* container.offsetWidth / 2, in px (the style sheet is not part of the source)
joystickRadius == 60

\* pointerId = null
null == <<>>

\* isDragging = false, pointerId = null, new THREE.Vector2(0, 0)
InitialJoysticks ==
    [j \in JoystickNames |-> [isDragging |-> FALSE, pointerId |-> null,
                              outputVector |-> <<0, 0>>]]

PointerIds == 1..MaxPointers

\* event.clientX - centerX and event.clientY - centerY, in px: beyond the rim on
\* one side, the centre, inside the rim
PointerOffsets == {-90, 0, 30}

PointerEvents ==
    [pointerId : PointerIds, dx : PointerOffsets, dy : PointerOffsets]

\* updateJoystick(event): the vector it sets on outputVector.  Lengths in px are
\* carried in hundredths of a px.
updateJoystick(event) ==
    LET dx == event.dx * 100
        dy == event.dy * 100
        radius == joystickRadius * 100
        distance == Sqrt(dx * dx + dy * dy)
        cx == IF distance > radius THEN FxMul(FxDiv(dx, distance), radius) ELSE dx
        cy == IF distance > radius THEN FxMul(FxDiv(dy, distance), radius) ELSE dy
    IN  <<FxDiv(cx, radius), FxDiv(cy, radius)>>

onPointerDown(J, event) ==
    IF J.isDragging THEN J
    ELSE [isDragging |-> TRUE, pointerId |-> <<event.pointerId>>,
          outputVector |-> updateJoystick(event)]

onPointerMove(J, event) ==
    IF J.isDragging /\ J.pointerId = <<event.pointerId>>
    THEN [J EXCEPT !.outputVector = updateJoystick(event)]
    ELSE J

\* Faulty variant of onPointerUp: any pointer ends the drag (`if (isDragging)`)
onPointerUpAnyPointer(J, event) ==
    IF J.isDragging
    THEN [isDragging |-> FALSE, pointerId |-> null, outputVector |-> <<0, 0>>]
    ELSE J

\* the listener of both 'pointerup' and 'pointercancel'
onPointerUp(J, event) ==
    IF J.isDragging /\ J.pointerId = <<event.pointerId>>
    THEN [isDragging |-> FALSE, pointerId |-> null, outputVector |-> <<0, 0>>]
    ELSE J

---------------------------------------------------------------------------
(* The program: init(), the slider handlers of setupUI, and animate()      *)

\* values the sliders are moved to, within their [min, max] ranges
SphereCountValues == 1..Min(MaxCount, maxSpheres)
SmoothKValues == {smoothKMin, defaultSmoothK, smoothKMax}
SpeedValues == {speedMin, defaultSpeed, speedMax}
\* clock.getDelta(): no time, one 16 ms frame, one second (a stalled tab)
DeltaTimes == {0, 160, 10000}

\* `params` after module load, the sphere count capped by the model's bound
InitialParams ==
    [sphereCount  |-> Min(defaultSphereCount, MaxCount),
     smoothK      |-> defaultSmoothK,
     speed        |-> defaultSpeed,
     cellsPerAxis |-> GridCells,
     isoLevel     |-> isoLevel]

\* `new THREE.BufferGeometry()`: no attributes yet
EmptyGeometry ==
    [installed |-> FALSE, vertices |-> <<>>, normals |-> <<>>, cells |-> <<>>,
     emitters |-> 0, seeds |-> {}, cellsPerAxis |-> 0]

NoCall == [op |-> "none", done |-> FALSE]

History(kind, count, dt, branches, P) ==
    [kind |-> kind, count |-> count, dt |-> dt, branches |-> branches,
     afterFrame |-> FALSE, params |-> P]

\* Faulty variant of SphereCountChange: the count is stored and no reseed follows
SphereCountChangeNoReseed(P, sph, val, tape, id) ==
    [params |-> [P EXCEPT !.sphereCount = val], spheres |-> sph]

\* onchange of the 'Spheres' slider: params.sphereCount = val; reseedSpheres(val)
SphereCountChange(P, sph, val, tape, id) ==
    LET Q == [P EXCEPT !.sphereCount = val]
    IN  [params |-> Q, spheres |-> reseedSpheres(val, tape, Q, id)]

\* onchange of the 'Smooth K' slider: params.smoothK = val
SmoothKChange(P, sph, val) ==
    [params |-> [P EXCEPT !.smoothK = val], spheres |-> sph]

\* onchange of the 'Speed' slider: params.speed = val; reseedSpheres(params.sphereCount)
SpeedChange(P, sph, val, tape, id) ==
    LET Q == [P EXCEPT !.speed = val]
    IN  [params |-> Q, spheres |-> reseedSpheres(Q.sphereCount, tape, Q, id)]

\* the part of animate() that touches the model: updateSpheres(deltaTime); updateMesh()
Frame(P, sph, deltaTime, tape) ==
    LET moved == updateSpheres(sph, deltaTime, tape, P)
    IN  [spheres |-> moved.spheres, branches |-> moved.branches,
         mesh |-> updateMesh(moved.spheres, P)]

\* init(): reseedSpheres(params.sphereCount) on the initial params
Init ==
    /\ params = InitialParams
    /\ \E tape \in Tapes :
          spheres = reseedSpheres(InitialParams.sphereCount, tape, InitialParams, 0)
    /\ mesh = EmptyGeometry
    /\ last = History("init", InitialParams.sphereCount, 0, <<>>, InitialParams)
    /\ events = 0
    /\ call = NoCall
    /\ joysticks = InitialJoysticks

SphereCountInput ==
    /\ events < MaxEvents
    /\ \E val \in SphereCountValues, tape \in Tapes :
          \E r \in {SphereCountChange(params, spheres, val, tape, events + 1)} :
              /\ params' = r.params
              /\ spheres' = r.spheres
              /\ last' = History("count", val, 0, <<>>, params)
    /\ events' = events + 1
    /\ UNCHANGED <<mesh, call, joysticks>>

SmoothKInput ==
    /\ events < MaxEvents
    /\ \E val \in SmoothKValues :
          \E r \in {SmoothKChange(params, spheres, val)} :
              /\ params' = r.params
              /\ spheres' = r.spheres
              /\ last' = History("smoothK", 0, 0, <<>>, params)
    /\ events' = events + 1
    /\ UNCHANGED <<mesh, call, joysticks>>

SpeedInput ==
    /\ events < MaxEvents
    /\ \E val \in SpeedValues, tape \in Tapes :
          \E r \in {SpeedChange(params, spheres, val, tape, events + 1)} :
              /\ params' = r.params
              /\ spheres' = r.spheres
              /\ last' = History("speed", params.sphereCount, 0, <<>>, params)
    /\ events' = events + 1
    /\ UNCHANGED <<mesh, call, joysticks>>

\* one run of animate(); a handler runs to completion, so no input handler runs
\* between updateSpheres and updateMesh
Animate ==
    /\ events < MaxEvents
    /\ \E deltaTime \in DeltaTimes, tape \in Tapes :
          \E r \in {Frame(params, spheres, deltaTime, tape)} :
              /\ spheres' = r.spheres
              /\ mesh' = r.mesh
              /\ last' = [History("frame", Len(spheres), deltaTime, r.branches, params)
                            EXCEPT !.afterFrame = (last.kind = "frame")]
    /\ events' = events + 1
    /\ UNCHANGED <<params, call, joysticks>>

Next == SphereCountInput \/ SmoothKInput \/ SpeedInput \/ Animate

Spec == Init /\ [][Next]_vars

---------------------------------------------------------------------------
(* Functions under contract: the arguments (and the program state a        *)
(* function reads) are drawn by the initial predicate, one step applies    *)
(* the function.                                                           *)

Idle == History("init", 0, 0, <<>>, InitialParams)

\* emitter arrays reseedSpheres can leave, for a given params; count 0 included
EmitterSets(P, least) ==
    {reseedSpheres(n, tape, P, 0) : n \in least..MaxCount, tape \in Tapes}

\* ---- updateMesh() on any emitter array and any cellsPerAxis ----

MeshParams ==
    {[InitialParams EXCEPT !.smoothK = k, !.cellsPerAxis = c] :
        k \in SmoothKValues, c \in {-1, 0, GridCells}}

InitMesh ==
    /\ params \in MeshParams
    /\ spheres \in EmitterSets(params, 0)
    /\ mesh = EmptyGeometry
    /\ last = Idle
    /\ events = 0
    /\ call = [op |-> "updateMesh", done |-> FALSE]
    /\ joysticks = InitialJoysticks

MeshCall ==
    /\ call.op = "updateMesh" /\ ~call.done
    /\ mesh' = updateMesh(spheres, params)
    /\ call' = [call EXCEPT !.done = TRUE]
    /\ UNCHANGED <<params, spheres, last, events, joysticks>>

NextMesh == MeshCall

SpecMesh == InitMesh /\ [][NextMesh]_vars

\* ---- one cell of the pass, on the program's 40-cell grid ----

\* cells at a corner of the volume and around its centre
CellIndices == {0, cellsPerAxis \div 2 - 1, cellsPerAxis \div 2}

CellParams == {[InitialParams EXCEPT !.smoothK = k, !.cellsPerAxis = cellsPerAxis] :
                  k \in SmoothKValues}

InitCell ==
    /\ params \in CellParams
    /\ spheres \in EmitterSets(params, 1)
    /\ mesh = EmptyGeometry
    /\ last = Idle
    /\ events = 0
    /\ \E i \in CellIndices, j \in CellIndices, k \in CellIndices :
          call = [op |-> "cell", done |-> FALSE, i |-> i, j |-> j, k |-> k,
                  edgeIntersection |-> [e \in 0..11 |-> ZeroVec]]
    /\ joysticks = InitialJoysticks

CellCall ==
    /\ call.op = "cell" /\ ~call.done
    /\ call' = [op |-> "cell", done |-> TRUE, i |-> call.i, j |-> call.j, k |-> call.k,
                edgeIntersection |-> call.edgeIntersection,
                result |-> Cell(call.i, call.j, call.k, call.edgeIntersection,
                                spheres, params)]
    /\ UNCHANGED <<params, spheres, mesh, last, events, joysticks>>

NextCell == CellCall

SpecCell == InitCell /\ [][NextCell]_vars

\* ---- smin(a, b, k) and fieldValue(worldPos) ----

SminArgs == (-SminRange)..SminRange

FieldPoints == {Vec(x, y, z) : x \in {-400, 0, 300}, y \in {-400, 0, 300}, z \in {0, 300}}

FieldParams == {[InitialParams EXCEPT !.smoothK = k] : k \in SmoothKValues}

InitField ==
    /\ params \in FieldParams
    /\ mesh = EmptyGeometry
    /\ last = Idle
    /\ events = 0
    /\ \/ /\ spheres = <<>>
          /\ \E a \in SminArgs \cup {D0}, b \in SminArgs :
                call = [op |-> "smin", done |-> FALSE, a |-> a, b |-> b]
       \/ /\ spheres \in EmitterSets(params, 1)
          /\ \E x \in FieldPoints :
                call = [op |-> "fieldValue", done |-> FALSE, worldPos |-> x]
    /\ joysticks = InitialJoysticks

SminCall ==
    /\ call.op = "smin" /\ ~call.done
    /\ call' = [op |-> "smin", done |-> TRUE, a |-> call.a, b |-> call.b,
                result |-> smin(call.a, call.b, params.smoothK)]
    /\ UNCHANGED <<params, spheres, mesh, last, events, joysticks>>

FieldValueCall ==
    /\ call.op = "fieldValue" /\ ~call.done
    /\ call' = [op |-> "fieldValue", done |-> TRUE, worldPos |-> call.worldPos,
                result |-> fieldValue(call.worldPos, spheres, params.smoothK)]
    /\ UNCHANGED <<params, spheres, mesh, last, events, joysticks>>

NextField == SminCall \/ FieldValueCall

SpecField == InitField /\ [][NextField]_vars

\* ---- interpolateVertex(p1, p2, v1, v2) ----

InterpPoints == {Vec(0, 0, 0), Vec(1750, 0, 0), Vec(0, -875, 1750)}
InterpValues == {-125, -1, 0, 1, 163}
IsoLevels == {-1, isoLevel, 1}

InitInterp ==
    /\ params \in {[InitialParams EXCEPT !.isoLevel = iso] : iso \in IsoLevels}
    /\ spheres = <<>>
    /\ mesh = EmptyGeometry
    /\ last = Idle
    /\ events = 0
    /\ \E p1 \in InterpPoints, p2 \in InterpPoints, v1 \in InterpValues, v2 \in InterpValues :
          call = [op |-> "interpolateVertex", done |-> FALSE,
                  p1 |-> p1, p2 |-> p2, v1 |-> v1, v2 |-> v2]
    /\ joysticks = InitialJoysticks

InterpCall ==
    /\ call.op = "interpolateVertex" /\ ~call.done
    /\ call' = [op |-> "interpolateVertex", done |-> TRUE,
                p1 |-> call.p1, p2 |-> call.p2, v1 |-> call.v1, v2 |-> call.v2,
                result |-> interpolateVertex(call.p1, call.p2, call.v1, call.v2,
                                             params.isoLevel)]
    /\ UNCHANGED <<params, spheres, mesh, last, events, joysticks>>

NextInterp == InterpCall

SpecInterp == InitInterp /\ [][NextInterp]_vars

\* ---- animate() frame after frame, with no input in between ----

\* clock.getDelta() of a tab that keeps running: half a second, a second
TickTimes == {5000, 10000}

\* params after the 'Spheres' and 'Speed' sliders were moved
WanderParams ==
    {[InitialParams EXCEPT !.speed = v, !.sphereCount = n] :
        v \in SpeedValues, n \in 1..MaxCount}

\* the state a reseed leaves; `events` is the parity of the frames run
InitWander ==
    /\ params \in WanderParams
    /\ \E tape \in Tapes :
          spheres = reseedSpheres(params.sphereCount, tape, params, 0)
    /\ mesh = EmptyGeometry
    /\ last = Idle
    /\ events = 0
    /\ call = NoCall
    /\ joysticks = InitialJoysticks

\* one run of animate() with deltaTime > 0
WanderTick ==
    /\ \E deltaTime \in TickTimes, tape \in Tapes :
          \E r \in {Frame(params, spheres, deltaTime, tape)} :
              /\ spheres' = r.spheres
              /\ mesh' = r.mesh
              /\ last' = [History("frame", Len(spheres), deltaTime, r.branches, params)
                            EXCEPT !.afterFrame = (last.kind = "frame")]
    /\ events' = 1 - events
    /\ UNCHANGED <<params, call, joysticks>>

NextWander == WanderTick

\* a step that runs a frame: the only steps of NextWander that change `events`
FrameRuns == events' = 1 - events

\* animate() begins with requestAnimationFrame(animate): the frames never stop
SpecWander == InitWander /\ [][NextWander]_vars /\ WF_events(FrameRuns)

\* ---- pointer events on the joystick containers, in any order ----

\* history: the kind and pointer of the event just dispatched, and the joystick
\* whose container got it
PointerHistory(kind, j, event) ==
    [kind |-> kind, joystick |-> j, pointerId |-> event.pointerId]

InitJoystick ==
    /\ params = InitialParams
    /\ \E tape \in Tapes :
          spheres = reseedSpheres(InitialParams.sphereCount, tape, InitialParams, 0)
    /\ mesh = EmptyGeometry
    /\ last = Idle
    /\ events = 0
    /\ call = NoCall
    /\ joysticks = InitialJoysticks

PointerDown ==
    /\ \E j \in JoystickNames, event \in PointerEvents :
          /\ joysticks' = [joysticks EXCEPT ![j] = onPointerDown(@, event)]
          /\ last' = PointerHistory("pointerdown", j, event)
    /\ UNCHANGED <<params, spheres, mesh, events, call>>

PointerMove ==
    /\ \E j \in JoystickNames, event \in PointerEvents :
          /\ joysticks' = [joysticks EXCEPT ![j] = onPointerMove(@, event)]
          /\ last' = PointerHistory("pointermove", j, event)
    /\ UNCHANGED <<params, spheres, mesh, events, call>>

PointerUp ==
    /\ \E j \in JoystickNames, event \in PointerEvents :
          /\ joysticks' = [joysticks EXCEPT ![j] = onPointerUp(@, event)]
          /\ last' = PointerHistory("pointerup", j, event)
    /\ UNCHANGED <<params, spheres, mesh, events, call>>

PointerCancel ==
    /\ \E j \in JoystickNames, event \in PointerEvents :
          /\ joysticks' = [joysticks EXCEPT ![j] = onPointerUp(@, event)]
          /\ last' = PointerHistory("pointercancel", j, event)
    /\ UNCHANGED <<params, spheres, mesh, events, call>>

NextJoystick == PointerDown \/ PointerMove \/ PointerUp \/ PointerCancel

SpecJoystick == InitJoystick /\ [][NextJoystick]_vars

---------------------------------------------------------------------------
(* Claims                                                                  *)

Coords == 1..3
Positions(sph) == [n \in 1..Len(sph) |-> sph[n].position]
Radii(sph) == [n \in 1..Len(sph) |-> sph[n].radius]

\* C1: after a frame, the normal at index i of the normals array is
\* estimateNormal of the vertex at index i of the positions array, for every
\* vertex of every emitted triangle.
C1_NormalsMatchVertices ==
    last.kind = "frame" =>
        /\ Len(mesh.normals) = Len(mesh.vertices)
        /\ \A n \in 1..Len(mesh.vertices) :
              mesh.normals[n] = estimateNormal(mesh.vertices[n], spheres, params.smoothK)

\* C2: updateMesh called with no emitters or with cellsPerAxis <= 0 does not
\* complete by installing position / normal attributes.
C2_BadInputRejected ==
    (call.op = "updateMesh" /\ call.done
        /\ (Len(spheres) = 0 \/ params.cellsPerAxis <= 0))
    => ~mesh.installed

\* C3 as stated: every emitter has radius > 0 and speed > 0.
C3_RadiusSpeedPositive ==
    \A n \in 1..Len(spheres) : spheres[n].radius > 0 /\ spheres[n].speed > 0

\* C3 amended: every emitter has radius > 0 and speed >= 0, and speed > 0
\* whenever params.speed > 0 (the Speed slider goes down to 0).
C3_RadiusPositiveSpeedNonNegative ==
    \A n \in 1..Len(spheres) :
        /\ spheres[n].radius > 0
        /\ spheres[n].speed >= 0
        /\ params.speed > 0 => spheres[n].speed > 0

\* C3 witness: a frame has run on emitters reseeded with the Speed slider at 0.
C3_FrameAtZeroSpeed ==
    /\ last.kind = "frame"
    /\ params.speed = 0
    /\ Len(spheres) > 0
    /\ \A n \in 1..Len(spheres) : spheres[n].speed = 0 /\ spheres[n].radius > 0

\* the handlers that end in reseedSpheres
Reseeders == {"init", "count", "speed"}

\* C4: right after reseedSpheres(n) there are exactly n emitters, and every
\* coordinate of every position and target is in [-bounds, bounds] for the
\* bounds of the current volumeRadius and smoothK.
C4_ReseedCountAndBounds ==
    last.kind \in Reseeders =>
        /\ Len(spheres) = last.count
        /\ \A n \in 1..Len(spheres), c \in Coords :
              /\ Abs(spheres[n].position[c]) <= Bounds(params.smoothK)
              /\ Abs(spheres[n].target[c]) <= Bounds(params.smoothK)

\* C4 witness: the Spheres slider changed the count, and an emitter sits on the
\* face of the padded cube.
C4_ReseededToNewCount ==
    /\ last.kind = "count"
    /\ last.count # last.params.sphereCount
    /\ Len(spheres) = last.count
    /\ \E n \in 1..Len(spheres), c \in Coords :
          spheres[n].position[c] = -Bounds(params.smoothK)

\* C5: the emitter array always holds exactly params.sphereCount emitters of one
\* reseed; a frame's updateSpheres and updateMesh both run on that whole array,
\* and params is the same when the frame ends as when it started.
C5_FrameSeesOneEmitterSet ==
    /\ Len(spheres) = params.sphereCount
    /\ \A n, m \in 1..Len(spheres) : spheres[n].seed = spheres[m].seed
    /\ last.kind = "frame" =>
          /\ last.count = params.sphereCount
          /\ mesh.emitters = params.sphereCount
          /\ mesh.seeds = {spheres[n].seed : n \in 1..Len(spheres)}
          /\ Cardinality(mesh.seeds) = 1
          /\ last.params = params

\* C5 witness: a frame ran right after the Spheres slider changed the count.
C5_FrameAfterCountChange ==
    /\ last.kind = "frame"
    /\ ~last.afterFrame
    /\ params.sphereCount # InitialParams.sphereCount
    /\ mesh.emitters = params.sphereCount
    /\ mesh.seeds = {1}

\* C6: a frame with deltaTime = 0 that follows a frame directly (no input in
\* between) leaves every position and radius as it was and installs the same
\* vertices as the frame before.
C6_ZeroDtFrameIdempotent ==
    [][(last.kind = "frame" /\ last'.kind = "frame" /\ last'.dt = 0
            /\ events' = events + 1)
       => /\ Positions(spheres') = Positions(spheres)
          /\ Radii(spheres') = Radii(spheres)
          /\ mesh'.vertices = mesh.vertices]_vars

\* C6 witness: such a frame ran on an emitter within epsilon of its target, with
\* a mesh that is not empty.
C6_ZeroDtFrameNearTarget ==
    /\ last.kind = "frame"
    /\ last.afterFrame
    /\ last.dt = 0
    /\ \E n \in 1..Len(last.branches) : last.branches[n] = "near"
    /\ Len(mesh.vertices) > 0

\* C7: every emitter's position is inside the padded cube of the current
\* volumeRadius and the current smoothK.
C7_PositionsInsideCurrentBounds ==
    \A n \in 1..Len(spheres), c \in Coords :
        Abs(spheres[n].position[c]) <= Bounds(params.smoothK)

\* the field at the eight corners of the cell of the call
CallCornerValues ==
    LET corners == CellCorners(call.i, call.j, call.k, params.cellsPerAxis)
    IN  [c \in 0..7 |-> fieldValue(corners[c], spheres, params.smoothK)]

AllBelow(v, iso) == \A c \in 0..7 : v[c] < iso
NoneBelow(v, iso) == \A c \in 0..7 : ~(v[c] < iso)

\* C8: a cell whose eight corner values are all below isoLevel, or all not
\* below it, appends no vertex and no normal and interpolates no edge.
C8_UniformCellAppendsNothing ==
    (call.op = "cell" /\ call.done
        /\ (AllBelow(CallCornerValues, params.isoLevel)
              \/ NoneBelow(CallCornerValues, params.isoLevel)))
    => /\ call.result.vertices = <<>>
       /\ call.result.normals = <<>>
       /\ call.result.did.interpolated = 0
       /\ call.result.did.appended = 0
       /\ call.result.edgeIntersection = call.edgeIntersection

\* C8 witness: a cell wholly inside the surface (case index 255) was processed.
C8_CellInsideSurface ==
    /\ call.op = "cell" /\ call.done
    /\ AllBelow(CallCornerValues, params.isoLevel)
    /\ call.result.did.cubeIndex = 255
    /\ call.result.vertices = <<>>

\* the least sdf_sphere over the emitters
RECURSIVE MinSdfFrom(_, _, _)
MinSdfFrom(worldPos, sph, n) ==
    LET d == sdf_sphere(worldPos, sph[n].position, sph[n].radius)
    IN  IF n = Len(sph) THEN d ELSE Min(d, MinSdfFrom(worldPos, sph, n + 1))
MinSdf(worldPos, sph) == MinSdfFrom(worldPos, sph, 1)

C10_EqualValuesReturnP1 ==
    (call.op = "interpolateVertex" /\ call.done /\ call.v1 = call.v2)
    => call.result = call.p1

\* C10 witness: both values equal isoLevel, the end points differ, p1 came back.
C10_EqualValuesOnIso ==
    /\ call.op = "interpolateVertex" /\ call.done
    /\ call.v1 = call.v2
    /\ call.v1 = params.isoLevel
    /\ call.p1 # call.p2
    /\ call.result = call.p1

---------------------------------------------------------------------------
(* The advance tick, emitter by emitter                                    *)

\* the points a resampled target can be: three consecutive draws of some tape,
\* scaled to the cube of the current smoothK
ResampledTargets ==
    {RandomPoint(tape, i, Bounds(params.smoothK)) :
        tape \in Tapes, i \in 0..(3 * MaxCount)}

\* coordinate c of q lies between the same coordinate of a and of b
Between(q, a, b) ==
    \A c \in Coords : Min(a[c], b[c]) <= q[c] /\ q[c] <= Max(a[c], b[c])

\* C11: in one advance tick each emitter does exactly one of: (1) nearer than
\* 0.001 to its target, it keeps its position and its target is resampled;
\* (2) otherwise, with speed * dt >= distance, its position becomes the pre-tick
\* target and its target is resampled; (3) otherwise its target is kept and its
\* position moves by speed * dt on the segment towards the target (to the
\* rounding of the arithmetic: two units), never past it.  Radius and speed are
\* untouched and the set keeps its size.
C11_TickDoesOneOfThree ==
    [][(last'.kind = "frame" /\ events' = events + 1)
       => /\ Len(spheres') = Len(spheres)
          /\ \A n \in 1..Len(spheres) :
                LET s == spheres[n]
                    t == spheres'[n]
                    distance == VLength(VSub(s.target, s.position))
                    moveStep == FxMul(s.speed, last'.dt)
                IN  /\ t.radius = s.radius /\ t.speed = s.speed
                    /\ distance < arriveEps
                          => /\ t.position = s.position
                             /\ t.target \in ResampledTargets
                             /\ last'.branches[n] = "near"
                    /\ (distance >= arriveEps /\ moveStep >= distance)
                          => /\ t.position = s.target
                             /\ t.target \in ResampledTargets
                             /\ last'.branches[n] = "snap"
                    /\ (distance >= arriveEps /\ moveStep < distance)
                          => /\ t.target = s.target
                             /\ Abs(VLength(VSub(t.position, s.position)) - moveStep) <= 2
                             /\ Abs(VLength(VSub(s.target, t.position))
                                      - (distance - moveStep)) <= 2
                             /\ Between(t.position, s.position, s.target)
                             /\ last'.branches[n] = "move"]_vars

\* C11 witness: a tick with dt > 0 moved an emitter part of the way: it is off
\* its target by more than epsilon and its target was kept.
C11_TickMovedPartWay ==
    /\ last.kind = "frame"
    /\ last.dt > 0
    /\ \E n \in 1..Len(spheres) :
          /\ last.branches[n] = "move"
          /\ spheres[n].speed > 0
          /\ VLength(VSub(spheres[n].target, spheres[n].position)) >= arriveEps

---------------------------------------------------------------------------
(* The wander                                                              *)

\* the last frame re-targeted emitter n (it was near its target or snapped on it)
Retargeted(n) ==
    n <= Len(spheres) => (last.kind = "frame" /\ last.branches[n] \in {"near", "snap"})

\* C12: under frames with dt > 0 that never stop and no reseed, every emitter is
\* re-targeted again and again.
C12_RetargetedForever ==
    \A n \in 1..MaxCount : []<>Retargeted(n)

\* C12 amended: the same, for emitters seeded at a speed setting above 0 (at
\* speed 0 an emitter that is not already on its target never reaches it).
C12_RetargetedForeverAtPositiveSpeed ==
    (params.speed > 0) => \A n \in 1..MaxCount : []<>Retargeted(n)

\* C12 witness: after at least one earlier frame, a frame with dt > 0 brought a
\* moving emitter onto its target and gave it a new one.
C12_ArrivedAndRetargeted ==
    /\ last.kind = "frame" /\ last.afterFrame
    /\ last.dt > 0
    /\ params.speed > 0
    /\ \E n \in 1..Len(spheres) :
          /\ last.branches[n] = "snap"
          /\ spheres[n].speed > 0

---------------------------------------------------------------------------
(* The joysticks                                                           *)

PointerKinds == {"pointerdown", "pointermove", "pointerup", "pointercancel"}

\* the event recorded in h reached joystick j while it was in state J and is one
\* the claim says is ignored: a pointerdown during a drag, or a move, up or
\* cancel of a pointer that did not start the drag
Ignored(h, j, J) ==
    /\ h.kind \in PointerKinds
    /\ h.joystick = j
    /\ J.isDragging
    /\ \/ h.kind = "pointerdown"
       \/ J.pointerId # <<h.pointerId>>

\* C13: for each joystick, under every interleaving of pointer events: while it
\* is not dragging its pointerId is null and its output vector is (0, 0); and
\* an ignored event (see Ignored) changes neither its drag state nor its output.
\* An event on one joystick leaves the other as it was.
C13_JoystickIdleAndIgnores ==
    /\ [](\A j \in JoystickNames :
             ~joysticks[j].isDragging
                => joysticks[j].pointerId = null /\ joysticks[j].outputVector = <<0, 0>>)
    /\ [][\A j \in JoystickNames :
             /\ Ignored(last', j, joysticks[j]) => joysticks'[j] = joysticks[j]
             /\ (last'.kind \in PointerKinds /\ last'.joystick # j)
                   => joysticks'[j] = joysticks[j]]_vars

\* C13 witness: a joystick is held off-centre by one pointer and the event just
\* dispatched to it was the pointerup of another pointer.
C13_ForeignPointerUpDuringDrag ==
    /\ last.kind = "pointerup"
    /\ LET J == joysticks[last.joystick]
       IN  /\ J.isDragging
           /\ J.pointerId # <<last.pointerId>>
           /\ J.outputVector # <<0, 0>>

=============================================================================
